---------------------------- MODULE Spec2Model ----------------------------
(***************************************************************************)
(* SublimeUberSettings: hierarchical per-directory settings for Sublime    *)
(* Text views.  The model follows src/SublimeUberSettings.py.              *)
(*                                                                         *)
(* Strings are sequences of tokens.  A token is a path separator "/", a    *)
(* name ("p", "Python", "Preferences", "f"), a dot-extension               *)
(* (".sublime-settings", ".py") or one of "." and "..".  "" is << >> and   *)
(* "/" is <<"/">>; "/p/f.py" is <<"/", "p", "/", "f", ".py">>.             *)
(* Python's None is the value None below.                                  *)
(***************************************************************************)
EXTENDS Integers, Sequences, FiniteSets, TLC

VARIABLES
    fs,                 \* the disk: settings-file location -> content
    file_name,          \* view id -> view.file_name()
    syntax,             \* view id -> view.settings().get("syntax")
    store,              \* view id -> view.settings(), a dict
    configured_views,   \* the module-level list configured_views
    loaded,             \* plugin_loaded() has run
    released,           \* ids removed by on_close and not applied since
    last,               \* the last call made and how it ended
    completed,          \* ids apply_settings returned for since their last on_close
    calls,              \* per thread, the call it is in and the line it is at
    writes,             \* per view, how many calls have written its store
    race                \* ids tested by a call while another call was past its test

vars == <<fs, file_name, syntax, store, configured_views, loaded, released, last,
          completed, calls, writes, race>>

\* what the calls made from several threads change
threads == <<calls, writes, race>>

---------------------------------------------------------------------------
(* Bounds of the model *)

\* depth of the deepest directory of the tree (the root has depth 0)
MaxDepth == 2
\* at most this many settings files exist on disk at a time
MaxFiles == 2

---------------------------------------------------------------------------
(* Values *)

None == <<"None">>
Sep == "/"
Pardir == ".."
Curdir == "."
EmptyStr == << >>
RootDir == <<Sep>>

\* names of the nested directories /p, /p/q, /p/q/r, ...
DirNames == <<"p", "q", "r", "s", "t">>

Views == {1, 2}
Keys == {"a", "b"}
Values == {1, 2}

EmptyDict == [k \in {} |-> 0]

\* the dicts a settings file can decode to
Dicts == UNION {[ks -> Values] : ks \in SUBSET Keys}

Absent == [kind |-> "absent"]
Corrupt == [kind |-> "corrupt"]
Unreadable == [kind |-> "unreadable"]
Array == [kind |-> "array"]
Misencoded == [kind |-> "misencoded"]
Object(d) == [kind |-> "object", value |-> d]

FileContents == {Absent, Corrupt} \cup {Object(d) : d \in Dicts}

---------------------------------------------------------------------------
(* os.path on POSIX, on token strings *)

RECURSIVE SplitFrom(_, _)
\* the components of a path: the maximal runs of tokens between separators
SplitFrom(path, cur) ==
    IF path = << >>
    THEN IF cur = << >> THEN << >> ELSE <<cur>>
    ELSE IF Head(path) = Sep
         THEN (IF cur = << >> THEN << >> ELSE <<cur>>) \o SplitFrom(Tail(path), << >>)
         ELSE SplitFrom(Tail(path), Append(cur, Head(path)))

Components(path) == SplitFrom(path, << >>)

RECURSIVE JoinComps(_)
JoinComps(comps) ==
    IF comps = << >> THEN << >>
    ELSE IF Len(comps) = 1 THEN Head(comps)
    ELSE Head(comps) \o <<Sep>> \o JoinComps(Tail(comps))

isabs(path) == path # << >> /\ Head(path) = Sep

\* the process's working directory, which abspath prepends to a relative path
Cwd == <<Sep, "p">>

os_path_join(a, b) ==
    IF isabs(b) THEN b
    ELSE IF a = << >> \/ a[Len(a)] = Sep THEN a \o b
    ELSE a \o <<Sep>> \o b

RECURSIVE NormComps(_, _, _)
\* posixpath.normpath's loop over the components
NormComps(comps, new_comps, initial_slashes) ==
    IF comps = << >> THEN new_comps
    ELSE LET comp == Head(comps)
             rest == Tail(comps)
         IN IF comp = <<Curdir>> THEN NormComps(rest, new_comps, initial_slashes)
            ELSE IF comp # <<Pardir>>
                    \/ (initial_slashes = 0 /\ new_comps = << >>)
                    \/ (new_comps # << >> /\ new_comps[Len(new_comps)] = <<Pardir>>)
                 THEN NormComps(rest, Append(new_comps, comp), initial_slashes)
                 ELSE IF new_comps # << >>
                      THEN NormComps(rest, SubSeq(new_comps, 1, Len(new_comps) - 1),
                                     initial_slashes)
                      ELSE NormComps(rest, new_comps, initial_slashes)

InitialSlashes(path) ==
    IF ~isabs(path) THEN 0
    ELSE IF Len(path) >= 2 /\ path[2] = Sep /\ ~(Len(path) >= 3 /\ path[3] = Sep)
         THEN 2
         ELSE 1

normpath(path) ==
    LET n == InitialSlashes(path)
        joined == JoinComps(NormComps(Components(path), << >>, n))
        out == [i \in 1..n |-> Sep] \o joined
    IN IF out = << >> THEN <<Curdir>> ELSE out

abspath(path) ==
    normpath(IF isabs(path) THEN path ELSE os_path_join(Cwd, path))

basename(path) ==
    LET seps == {i \in 1..Len(path) : path[i] = Sep}
        i == IF seps = {} THEN 0 ELSE CHOOSE m \in seps : \A n \in seps : n <= m
    IN SubSeq(path, i + 1, Len(path))

IsExt(tok) ==
    tok \in {".sublime-settings", ".sublime-syntax", ".tmLanguage", ".py"}

\* os.path.splitext(p)[0]: the extension is dropped unless it is all there is
splitext_root(path) ==
    LET b == basename(path)
    IN IF Len(b) >= 2 /\ IsExt(b[Len(b)])
       THEN SubSeq(path, 1, Len(path) - 1)
       ELSE path

---------------------------------------------------------------------------
(* The disk *)

\* the directory of depth d, as its components
DirComps(d) == [i \in 1..d |-> <<DirNames[i]>>]
\* ... and as a normalised absolute path
DirPath(d) == IF d = 0 THEN RootDir ELSE <<Sep>> \o JoinComps(DirComps(d))

Depths == 0..MaxDepth

SyntaxFiles == {<<"Packages", Sep, "Python", Sep, "Python", ".sublime-syntax">>}

SettingsNames == {<<"Python", ".sublime-settings">>, <<"Preferences", ".sublime-settings">>}

\* where a settings file can be: the components of its resolved location
FileSlots == {Append(DirComps(d), n) : d \in Depths, n \in SettingsNames}

\* the file the operating system finds under a path string
Locate(file) == NormComps(Components(IF isabs(file) THEN file ELSE os_path_join(Cwd, file)),
                          << >>, 1)

os_path_isfile(disk, file) ==
    Locate(file) \in DOMAIN disk /\ disk[Locate(file)].kind # "absent"

Present(disk) == {s \in DOMAIN disk : disk[s].kind # "absent"}


---------------------------------------------------------------------------
(* Python dicts and lists *)

\* d.update(other), as the dict d becomes
dict_update(d, other) ==
    [k \in DOMAIN d \cup DOMAIN other |-> IF k \in DOMAIN other THEN other[k] ELSE d[k]]

\* x in lst
list_contains(lst, x) == \E i \in 1..Len(lst) : lst[i] = x

\* faulty variant: remove does nothing
list_remove_nothing(lst, x) == [raised |-> ~list_contains(lst, x), list |-> lst]

\* lst.remove(x): the first x goes; [raised] is the ValueError of an absent x
list_remove(lst, x) ==
    IF ~list_contains(lst, x)
    THEN [raised |-> TRUE, list |-> lst]
    ELSE LET i == CHOOSE i \in 1..Len(lst) : lst[i] = x /\ \A j \in 1..(i - 1) : lst[j] # x
         IN [raised |-> FALSE, list |-> SubSeq(lst, 1, i - 1) \o SubSeq(lst, i + 1, Len(lst))]

---------------------------------------------------------------------------
(* The functions of the plugin *)

\* faulty variant: the root is recognised in the parent, one level too early
parent_dir_stops_below_root(path) ==
    LET parent_path == abspath(os_path_join(path, <<Pardir>>))
    IN IF parent_path = RootDir THEN EmptyStr ELSE parent_path

parent_dir(path) ==
    LET parent_path == abspath(os_path_join(path, <<Pardir>>))
    IN IF parent_path = path THEN EmptyStr ELSE parent_path

\* file_object.read() and sublime.decode_value on what it read: [raised] on
\* bytes that are not UTF-8 and on text that does not parse; a text that
\* parses to something else than an object gives that value
decode_value(content) ==
    IF content.kind = "object"
    THEN [raised |-> FALSE, is_dict |-> TRUE, value |-> content.value]
    ELSE IF content.kind = "array"
    THEN [raised |-> FALSE, is_dict |-> FALSE, value |-> EmptyDict]
    ELSE [raised |-> TRUE, is_dict |-> FALSE, value |-> EmptyDict]

\* faulty variant: no try block around the decoding
file_settings_no_catch(file) ==
    IF ~os_path_isfile(fs, file)
    THEN [raised |-> FALSE, is_dict |-> TRUE, value |-> EmptyDict]
    ELSE IF fs[Locate(file)].kind = "unreadable"
    THEN [raised |-> TRUE, is_dict |-> FALSE, value |-> EmptyDict]
    ELSE decode_value(fs[Locate(file)])

\* [raised]: open() failed, outside the try block
file_settings(file) ==
    IF ~os_path_isfile(fs, file)
    THEN [raised |-> FALSE, is_dict |-> TRUE, value |-> EmptyDict]
    ELSE IF fs[Locate(file)].kind = "unreadable"
    THEN [raised |-> TRUE, is_dict |-> FALSE, value |-> EmptyDict]
    ELSE LET decoded == decode_value(fs[Locate(file)])
         IN IF decoded.raised
            THEN [raised |-> FALSE, is_dict |-> TRUE, value |-> EmptyDict]
            ELSE decoded

RECURSIVE load_settings_files_farther_wins(_, _, _)
\* faulty variant: settings.update(dir_settings), the file read later overwrites
load_settings_files_farther_wins(settings_files, settings, consulted) ==
    IF settings_files = << >>
    THEN [raised |-> FALSE, settings |-> settings, consulted |-> consulted]
    ELSE LET settings_file == Head(settings_files)
             loaded_settings == file_settings(settings_file)
             dir_settings == dict_update(settings, loaded_settings.value)
             asked == Append(consulted, [file |-> settings_file,
                                         raised |-> loaded_settings.raised,
                                         loaded |-> loaded_settings.value])
         IN IF loaded_settings.raised \/ ~loaded_settings.is_dict
            THEN [raised |-> TRUE, settings |-> settings, consulted |-> asked]
            ELSE load_settings_files_farther_wins(Tail(settings_files), dir_settings, asked)

RECURSIVE load_settings_files_forgetting(_, _, _)
\* faulty variant: no dir_settings.update(settings), each file replaces the
\* settings read before it
load_settings_files_forgetting(settings_files, settings, consulted) ==
    IF settings_files = << >>
    THEN [raised |-> FALSE, settings |-> settings, consulted |-> consulted]
    ELSE LET settings_file == Head(settings_files)
             loaded_settings == file_settings(settings_file)
             asked == Append(consulted, [file |-> settings_file,
                                         raised |-> loaded_settings.raised,
                                         loaded |-> loaded_settings.value])
         IN IF loaded_settings.raised \/ ~loaded_settings.is_dict
            THEN [raised |-> TRUE, settings |-> settings, consulted |-> asked]
            ELSE load_settings_files_forgetting(Tail(settings_files),
                                                loaded_settings.value, asked)

RECURSIVE load_settings_files(_, _, _)
\* the for loop of view_settings; [consulted] keeps the files it passed to
\* file_settings and what each returned; [raised]: file_settings raised, or
\* returned a value without an update method
load_settings_files(settings_files, settings, consulted) ==
    IF settings_files = << >>
    THEN [raised |-> FALSE, settings |-> settings, consulted |-> consulted]
    ELSE LET settings_file == Head(settings_files)
             loaded_settings == file_settings(settings_file)
             dir_settings == dict_update(loaded_settings.value, settings)
             asked == Append(consulted, [file |-> settings_file,
                                         raised |-> loaded_settings.raised,
                                         loaded |-> loaded_settings.value])
         IN IF loaded_settings.raised \/ ~loaded_settings.is_dict
            THEN [raised |-> TRUE, settings |-> settings, consulted |-> asked]
            ELSE load_settings_files(Tail(settings_files), dir_settings, asked)

RECURSIVE walk_settings_dirs_prefs_first(_, _, _, _, _)
\* faulty variant: the Preferences file is listed before the syntax file
walk_settings_dirs_prefs_first(settings_dir, syntax_name, settings, visited, consulted) ==
    LET settings_files ==
            << settings_dir \o <<Sep, "Preferences", ".sublime-settings">>,
               settings_dir \o <<Sep>> \o syntax_name \o <<".sublime-settings">> >>
        r == load_settings_files(settings_files, settings, consulted)
        next_dir == parent_dir(settings_dir)
        seen == Append(visited, settings_dir)
    IN IF r.raised
       THEN [raised |-> TRUE, settings |-> EmptyDict,
             visited |-> seen, consulted |-> r.consulted]
       ELSE IF next_dir = EmptyStr
       THEN [raised |-> FALSE, settings |-> r.settings,
             visited |-> seen, consulted |-> r.consulted]
       ELSE walk_settings_dirs_prefs_first(next_dir, syntax_name, r.settings, seen,
                                           r.consulted)

RECURSIVE walk_settings_dirs(_, _, _, _, _)
\* the while loop of view_settings; [visited] keeps the values settings_dir took
walk_settings_dirs(settings_dir, syntax_name, settings, visited, consulted) ==
    LET settings_files ==
            << settings_dir \o <<Sep>> \o syntax_name \o <<".sublime-settings">>,
               settings_dir \o <<Sep, "Preferences", ".sublime-settings">> >>
        r == load_settings_files(settings_files, settings, consulted)
        next_dir == parent_dir(settings_dir)
        seen == Append(visited, settings_dir)
    IN IF r.raised
       THEN [raised |-> TRUE, settings |-> EmptyDict,
             visited |-> seen, consulted |-> r.consulted]
       ELSE IF next_dir = EmptyStr
       THEN [raised |-> FALSE, settings |-> r.settings,
             visited |-> seen, consulted |-> r.consulted]
       ELSE walk_settings_dirs(next_dir, syntax_name, r.settings, seen, r.consulted)

Raised == [raised |-> TRUE, settings |-> EmptyDict, visited |-> << >>, consulted |-> << >>]

RECURSIVE walk_one_name(_, _, _)
\* the walk for one file name alone
walk_one_name(settings_dir, name, settings) ==
    LET loaded_settings == file_settings(settings_dir \o <<Sep>> \o name)
        dir_settings == dict_update(loaded_settings.value, settings)
        next_dir == parent_dir(settings_dir)
    IN IF next_dir = EmptyStr THEN dir_settings
       ELSE walk_one_name(next_dir, name, dir_settings)

\* faulty variant: a flat priority list, the syntax files of all directories
\* before the Preferences files of all directories
view_settings_flat(view) ==
    IF syntax[view] = None \/ file_name[view] = None
    THEN Raised
    ELSE LET syntax_name == splitext_root(basename(syntax[view]))
             settings_dir == parent_dir(file_name[view])
             of_syntax == walk_one_name(settings_dir,
                                        syntax_name \o <<".sublime-settings">>, EmptyDict)
         IN [raised |-> FALSE,
             settings |-> walk_one_name(settings_dir,
                                        <<"Preferences", ".sublime-settings">>, of_syntax),
             visited |-> << >>, consulted |-> << >>]

\* os.path.basename(None) and os.path.join(None, os.pardir) raise TypeError
view_settings(view) ==
    IF syntax[view] = None \/ file_name[view] = None
    THEN Raised
    ELSE LET syntax_name == splitext_root(basename(syntax[view]))
             settings_dir == parent_dir(file_name[view])
         IN walk_settings_dirs(settings_dir, syntax_name, EmptyDict, << >>, << >>)

\* the plugin's state as apply_settings reads and leaves it
Plugin == [store |-> store, configured_views |-> configured_views, outcome |-> "none"]

\* faulty variant: no look into configured_views
apply_settings_unguarded(view, s) ==
    LET r == view_settings(view)
    IN IF r.raised
       THEN [s EXCEPT !.outcome = "raised"]
       ELSE [store |-> [s.store EXCEPT ![view] = dict_update(@, r.settings)],
             configured_views |-> Append(s.configured_views, view),
             outcome |-> "applied"]

\* faulty variant: the resolved settings replace the store
apply_settings_replacing(view, s) ==
    IF list_contains(s.configured_views, view)
    THEN [s EXCEPT !.outcome = "noop"]
    ELSE LET r == view_settings(view)
         IN IF r.raised
            THEN [s EXCEPT !.outcome = "raised"]
            ELSE [store |-> [s.store EXCEPT ![view] = r.settings],
                  configured_views |-> Append(s.configured_views, view),
                  outcome |-> "applied"]

\* faulty variant: the settings are set and the id is not appended
apply_settings_forgetful(view, s) ==
    IF list_contains(s.configured_views, view)
    THEN [s EXCEPT !.outcome = "noop"]
    ELSE LET r == view_settings(view)
         IN IF r.raised
            THEN [s EXCEPT !.outcome = "raised"]
            ELSE [store |-> [s.store EXCEPT ![view] = dict_update(@, r.settings)],
                  configured_views |-> s.configured_views,
                  outcome |-> "applied"]

\* faulty variant: the id is appended before the settings are resolved
apply_settings_registering_first(view, s) ==
    IF list_contains(s.configured_views, view)
    THEN [s EXCEPT !.outcome = "noop"]
    ELSE LET r == view_settings(view)
         IN IF r.raised
            THEN [s EXCEPT !.configured_views = Append(@, view), !.outcome = "raised"]
            ELSE [store |-> [s.store EXCEPT ![view] = dict_update(@, r.settings)],
                  configured_views |-> Append(s.configured_views, view),
                  outcome |-> "applied"]

\* lines 87 to 89 of apply_settings, r being what view_settings did
apply_resolved(view, s, r) ==
    IF r.raised
    THEN [s EXCEPT !.outcome = "raised"]
    ELSE [store |-> [s.store EXCEPT ![view] = dict_update(@, r.settings)],
          configured_views |-> Append(s.configured_views, view),
          outcome |-> "applied"]

apply_settings(view, s) ==
    IF list_contains(s.configured_views, view)
    THEN [s EXCEPT !.outcome = "noop"]
    ELSE apply_resolved(view, s, view_settings(view))

\* the plugin's state of a run of plugin_loaded, without the views returned
plugin_of(before) ==
    [store |-> before.store, configured_views |-> before.configured_views,
     outcome |-> before.outcome]

\* a run of plugin_loaded after apply_settings ended for one more view
run_after(view, before, after) ==
    [store |-> after.store, configured_views |-> after.configured_views,
     outcome |-> after.outcome,
     returned |-> IF after.outcome = "raised" THEN before.returned
                  ELSE before.returned \cup {view}]

\* one turn of the loops of plugin_loaded
apply_to_next_view(view, before) ==
    IF before.outcome = "raised" THEN before
    ELSE run_after(view, before, apply_settings(view, plugin_of(before)))

\* the loops of plugin_loaded: run[i] is the plugin's state after the i-th
\* view, and an exception leaves the loops; [returned] keeps the views for
\* which apply_settings returned
apply_to_views(views, s) ==
    LET run[i \in 0..Len(views)] ==
            IF i = 0 THEN [store |-> s.store, configured_views |-> s.configured_views,
                           outcome |-> s.outcome, returned |-> {}]
            ELSE apply_to_next_view(views[i], run[i - 1])
    IN run[Len(views)]

\* sublime.windows() and their views(), in order
OpenViews == [i \in 1..Cardinality(Views) |-> i]

\* the threads that deliver events, and a thread that is in no call
Threads == {1, 2}
Idle == [op |-> "none", views |-> << >>, pc |-> "idle"]

---------------------------------------------------------------------------
(* Initial states *)

\* the file a view of the directory of depth d shows
FileName(d) == os_path_join(DirPath(d), <<"f", ".py">>)

ViewFileNames == {FileName(d) : d \in Depths}

\* disk holds the settings files S, and nothing else
HoldsFiles(disk, S) ==
    \E g \in [S -> FileContents \ {Absent}] :
        disk = [s \in FileSlots |-> IF s \in S THEN g[s] ELSE Absent]

\* what the editor has in a view's settings before the plugin touches them
HostDefault == 0
InitialStore == [k \in {"a"} |-> HostDefault]

NoResult == [raised |-> FALSE, settings |-> EmptyDict, visited |-> << >>, consulted |-> << >>]
NoCall == [op |-> "none", view |-> 0, outcome |-> "none", result |-> NoResult]

\* the module as loaded, and the views untouched
InitLists ==
    /\ store = [v \in Views |-> InitialStore]
    /\ configured_views = << >>
    /\ loaded = FALSE
    /\ released = {}
    /\ last = NoCall
    /\ completed = {}
    /\ calls = [t \in Threads |-> Idle]
    /\ writes = [v \in Views |-> 0]
    /\ race = {}

InitPlugin ==
    /\ syntax \in [Views -> SyntaxFiles]
    /\ InitLists

\* the directory the open views' files are in
ProjectDepth == 1

\* the editor starts on a project without settings files; each view shows a
\* file of the project directory or is an unsaved buffer
Init ==
    /\ fs = [s \in FileSlots |-> Absent]
    /\ file_name \in [Views -> {None, FileName(ProjectDepth)}]
    /\ InitPlugin

\* one view on a file anywhere in the tree, over any disk
InitResolve ==
    /\ \E S \in SUBSET FileSlots : Cardinality(S) <= MaxFiles /\ HoldsFiles(fs, S)
    /\ file_name \in {[v \in Views |-> IF v = 1 THEN f ELSE None] : f \in ViewFileNames}
    /\ InitPlugin

\* what a settings file that exists can hold when files can be broken
FaultyContents == {Corrupt, Unreadable, Array, Misencoded,
                   Object([k \in {"a"} |-> 1]), Object([k \in {"b"} |-> 2])}

\* one view on a file anywhere in the tree, over a disk with broken files
InitFaults ==
    /\ \E S \in SUBSET FileSlots :
            /\ Cardinality(S) <= MaxFiles
            /\ \E g \in [S -> FaultyContents] :
                    fs = [s \in FileSlots |-> IF s \in S THEN g[s] ELSE Absent]
    /\ file_name \in {[v \in Views |-> IF v = 1 THEN f ELSE None] : f \in ViewFileNames}
    /\ InitPlugin

\* one view whose file name is the root itself, over any disk
InitRoot ==
    /\ \E S \in SUBSET FileSlots : Cardinality(S) <= MaxFiles /\ HoldsFiles(fs, S)
    /\ file_name = [v \in Views |-> IF v = 1 THEN RootDir ELSE None]
    /\ InitPlugin

\* where view_settings looks when the syntax name is empty
UnnamedSlots ==
    {Append(DirComps(d), n) : d \in Depths,
                              n \in {<<".sublime-settings">>, <<"Preferences", ".sublime-settings">>}}

UnnamedContents == {Corrupt, Object([k \in {"a"} |-> 1]), Object([k \in {"b"} |-> 2])}

\* one view without a syntax, on a file anywhere in the tree
InitNoSyntax ==
    /\ \E S \in SUBSET UnnamedSlots :
            /\ Cardinality(S) <= MaxFiles
            /\ \E g \in [S -> UnnamedContents] :
                    fs = [s \in UnnamedSlots |-> IF s \in S THEN g[s] ELSE Absent]
    /\ file_name \in {[v \in Views |-> IF v = 1 THEN f ELSE None] : f \in ViewFileNames}
    /\ syntax = [v \in Views |-> EmptyStr]
    /\ InitLists

---------------------------------------------------------------------------
(* Actions *)

\* sublime calls plugin_loaded once, when the plugin's module is loaded
plugin_loaded ==
    /\ ~loaded
    /\ LET s == apply_to_views(OpenViews, Plugin)
       IN /\ store' = s.store
          /\ configured_views' = s.configured_views
          /\ last' = [NoCall EXCEPT !.op = "plugin_loaded",
                                    !.outcome = IF s.outcome = "raised" THEN "raised" ELSE "returned"]
          /\ completed' = completed \cup s.returned
    /\ loaded' = TRUE
    /\ UNCHANGED <<fs, file_name, syntax, released, threads>>

\* on_load and on_post_save are the same call
apply_event(op, view) ==
    /\ loaded
    /\ LET s == apply_settings(view, Plugin)
       IN /\ store' = s.store
          /\ configured_views' = s.configured_views
          /\ released' = IF s.outcome = "applied" THEN released \ {view} ELSE released
          /\ last' = [NoCall EXCEPT !.op = op, !.view = view,
                        !.outcome = IF s.outcome = "applied" /\ view \in released
                                    THEN "reapplied" ELSE s.outcome]
          /\ completed' = IF s.outcome = "raised" THEN completed
                                                  ELSE completed \cup {view}
    /\ UNCHANGED <<fs, file_name, syntax, loaded, threads>>

on_load(view) == apply_event("on_load", view)

\* faulty variant: a save configures the view anew
on_post_save_again(view) ==
    /\ loaded
    /\ LET s == apply_settings(view, [Plugin EXCEPT
                    !.configured_views = list_remove(configured_views, view).list])
       IN /\ store' = s.store
          /\ configured_views' = s.configured_views
          /\ released' = IF s.outcome = "applied" THEN released \ {view} ELSE released
          /\ last' = [NoCall EXCEPT !.op = "on_post_save", !.view = view,
                                    !.outcome = s.outcome]
          /\ completed' = IF s.outcome = "raised" THEN completed
                                                  ELSE completed \cup {view}
    /\ UNCHANGED <<fs, file_name, syntax, loaded, threads>>

on_post_save(view) == apply_event("on_post_save", view)

\* faulty variant: on_close empties the list
on_close_clearing(view) ==
    /\ loaded
    /\ configured_views' = << >>
    /\ last' = [NoCall EXCEPT !.op = "on_close", !.view = view,
                  !.outcome = IF list_contains(configured_views, view)
                              THEN "removed" ELSE "absent"]
    /\ released' = released \cup {view}
    /\ completed' = completed \ {view}
    /\ UNCHANGED <<fs, file_name, syntax, store, loaded, threads>>

on_close(view) ==
    /\ loaded
    /\ LET r == list_remove(configured_views, view)
       IN /\ configured_views' = r.list
          /\ last' = [NoCall EXCEPT !.op = "on_close", !.view = view,
                        !.outcome = IF r.raised THEN "absent" ELSE "removed"]
    /\ released' = released \cup {view}
    /\ completed' = completed \ {view}
    /\ UNCHANGED <<fs, file_name, syntax, store, loaded, threads>>

\* the settings file the user works on while the views are open, and what
\* the user leaves in it
EditedFile == Append(DirComps(ProjectDepth), <<"Preferences", ".sublime-settings">>)
Edits == {Absent, Corrupt, Object([k \in {"a"} |-> 1]), Object([k \in {"b"} |-> 2]),
          Object([k \in Keys |-> IF k = "a" THEN 2 ELSE 1])}

\* the user creates, rewrites or deletes that file
disk_change(content) ==
    /\ fs[EditedFile] # content
    /\ fs' = [fs EXCEPT ![EditedFile] = content]
    /\ last' = [NoCall EXCEPT !.op = "disk_change"]
    /\ UNCHANGED <<file_name, syntax, store, configured_views, loaded, released,
                   completed, threads>>

\* a call of view_settings by itself
call_view_settings(view) ==
    /\ last.op = "none"
    /\ LET r == view_settings(view)
       IN last' = [op |-> "view_settings", view |-> view,
                   outcome |-> IF r.raised THEN "raised" ELSE "returned",
                   result |-> r]
    /\ UNCHANGED <<fs, file_name, syntax, store, configured_views, loaded, released,
                   completed, threads>>

Next ==
    \/ plugin_loaded
    \/ \E view \in Views : on_load(view)
    \/ \E view \in Views : on_post_save(view)
    \/ \E view \in Views : on_close(view)
    \/ \E content \in Edits : disk_change(content)

Spec == Init /\ [][Next]_vars

\* what the user can leave in the edited file that makes view_settings raise
FaultyEdits == {Unreadable, Array}

NextFaulty ==
    \/ Next
    \/ \E content \in FaultyEdits : disk_change(content)

\* the life of the views over a disk whose file can be broken
SpecFaulty == Init /\ [][NextFaulty]_vars

---------------------------------------------------------------------------
(* The same calls made from several threads: apply_settings has no lock, and
   a thread can be stopped between any two of its lines *)

\* the view the call of thread t is working on
CurrentView(t) == Head(calls[t].views)

\* a call after apply_settings returned: plugin_loaded goes to its next view,
\* the listener's methods return
after_return(call) ==
    IF Len(call.views) <= 1 THEN Idle
    ELSE [call EXCEPT !.views = Tail(@), !.pc = "line85"]

\* another thread is between the test and the append for the same view
Overlapping(t) ==
    \E u \in Threads \ {t} :
        calls[u].pc \in {"line87", "line89"} /\ CurrentView(u) = CurrentView(t)

\* a thread enters plugin_loaded
begin_plugin_loaded(t) ==
    /\ ~loaded
    /\ calls[t].pc = "idle"
    /\ calls' = [calls EXCEPT ![t] = [op |-> "plugin_loaded", views |-> OpenViews,
                                      pc |-> "line85"]]
    /\ loaded' = TRUE
    /\ UNCHANGED <<fs, file_name, syntax, store, configured_views, released, last,
                   completed, writes, race>>

\* a thread enters on_load or on_post_save of a view
begin_event(t, op, view) ==
    /\ loaded
    /\ calls[t].pc = "idle"
    /\ calls' = [calls EXCEPT ![t] = [op |-> op, views |-> <<view>>, pc |-> "line85"]]
    /\ UNCHANGED <<fs, file_name, syntax, store, configured_views, loaded, released,
                   last, completed, writes, race>>

\* faulty variant: no look into configured_views
apply_settings_test_skipped(t) ==
    /\ calls[t].pc = "line85"
    /\ calls' = [calls EXCEPT ![t].pc = "line87"]
    /\ race' = IF Overlapping(t) THEN race \cup {CurrentView(t)} ELSE race
    /\ UNCHANGED <<fs, file_name, syntax, store, configured_views, loaded, released,
                   last, completed, writes>>

\* if view.id() in configured_views: return
apply_settings_test(t) ==
    /\ calls[t].pc = "line85"
    /\ IF list_contains(configured_views, CurrentView(t))
       THEN /\ calls' = [calls EXCEPT ![t] = after_return(@)]
            /\ race' = race
       ELSE /\ calls' = [calls EXCEPT ![t].pc = "line87"]
            /\ race' = IF Overlapping(t) THEN race \cup {CurrentView(t)} ELSE race
    /\ UNCHANGED <<fs, file_name, syntax, store, configured_views, loaded, released,
                   last, completed, writes>>

\* the for loop over view_settings(view).items(); an exception of
\* view_settings ends the thread's call
set_resolved(t, view, r) ==
    IF r.raised
    THEN /\ calls' = [calls EXCEPT ![t] = Idle]
         /\ UNCHANGED <<store, writes>>
    ELSE /\ calls' = [calls EXCEPT ![t].pc = "line89"]
         /\ store' = [store EXCEPT ![view] = dict_update(@, r.settings)]
         /\ writes' = [writes EXCEPT ![view] = @ + 1]

apply_settings_set(t) ==
    /\ calls[t].pc = "line87"
    /\ set_resolved(t, CurrentView(t), view_settings(CurrentView(t)))
    /\ UNCHANGED <<fs, file_name, syntax, configured_views, loaded, released, last,
                   completed, race>>

\* configured_views.append(view.id())
apply_settings_append(t) ==
    /\ calls[t].pc = "line89"
    /\ configured_views' = Append(configured_views, CurrentView(t))
    /\ calls' = [calls EXCEPT ![t] = after_return(@)]
    /\ UNCHANGED <<fs, file_name, syntax, store, loaded, released, last, completed,
                   writes, race>>

\* the views as in Init, over a project whose settings file holds anything
InitThreads ==
    /\ \E content \in Edits :
            fs = [s \in FileSlots |-> IF s = EditedFile THEN content ELSE Absent]
    /\ file_name \in [Views -> {None, FileName(ProjectDepth)}]
    /\ InitPlugin

NextThreads ==
    \/ \E t \in Threads : begin_plugin_loaded(t)
    \/ \E t \in Threads, op \in {"on_load", "on_post_save"}, view \in Views :
            begin_event(t, op, view)
    \/ \E t \in Threads : apply_settings_test(t)
    \/ \E t \in Threads : apply_settings_set(t)
    \/ \E t \in Threads : apply_settings_append(t)

SpecThreads == InitThreads /\ [][NextThreads]_vars

---------------------------------------------------------------------------

NextResolve == \E view \in Views : call_view_settings(view)

SpecResolve == InitResolve /\ [][NextResolve]_vars

SpecFaults == InitFaults /\ [][NextResolve]_vars

SpecRoot == InitRoot /\ [][NextResolve]_vars

SpecNoSyntax == InitNoSyntax /\ [][NextResolve]_vars

---------------------------------------------------------------------------
(* What the disk holds for a view, read off the disk and not off the walk *)

\* the directories above a view's file, nearest first, as components
AncestorDirs(view) ==
    LET c == Components(file_name[view])
    IN [j \in 1..Len(c) |-> SubSeq(c, 1, Len(c) - j)]

SyntaxSlot(dir) == Append(dir, <<"Python", ".sublime-settings">>)
PrefsSlot(dir) == Append(dir, <<"Preferences", ".sublime-settings">>)

\* the candidate files of a view, in the order of their priority
Candidates(view) ==
    LET anc == AncestorDirs(view)
    IN [i \in 1..(2 * Len(anc)) |->
            IF i % 2 = 1 THEN SyntaxSlot(anc[(i + 1) \div 2]) ELSE PrefsSlot(anc[i \div 2])]

IsObject(slot) == slot \in DOMAIN fs /\ fs[slot].kind = "object"
Defines(slot, k) == IsObject(slot) /\ k \in DOMAIN fs[slot].value
DirDefines(dir, k) == Defines(SyntaxSlot(dir), k) \/ Defines(PrefsSlot(dir), k)
DirValues(dir, k) ==
    {fs[slot].value[k] : slot \in {x \in {SyntaxSlot(dir), PrefsSlot(dir)} : Defines(x, k)}}

\* the last call was view_settings on a view with a file
Resolved == last.op = "view_settings" /\ file_name[last.view] # None

---------------------------------------------------------------------------
(* Claims on view_settings, under SpecResolve *)

\* C1: closer wins across directories.  Every key of the mapping view_settings
\* returns has a value that the nearest ancestor directory defining the key
\* gives it, and a key no ancestor directory defines is not in the mapping.
C1_CloserWins ==
    Resolved =>
        /\ last.outcome = "returned"
        /\ LET anc == AncestorDirs(last.view)
               res == last.result.settings
           IN \A k \in Keys :
                LET defining == {j \in 1..Len(anc) : DirDefines(anc[j], k)}
                IN IF defining = {}
                   THEN k \notin DOMAIN res
                   ELSE LET n == CHOOSE j \in defining : \A i \in defining : j <= i
                        IN k \in DOMAIN res /\ res[k] \in DirValues(anc[n], k)

\* a nearer and a farther directory define a key differently, and the result
\* has the nearer one's value
C1_Witness ==
    /\ Resolved
    /\ last.outcome = "returned"
    /\ LET anc == AncestorDirs(last.view)
       IN \E k \in Keys : \E i, j \in 1..Len(anc) :
            /\ i < j
            /\ DirDefines(anc[i], k) /\ DirDefines(anc[j], k)
            /\ DirValues(anc[i], k) \cap DirValues(anc[j], k) = {}
            /\ last.result.settings[k] \in DirValues(anc[i], k)

\* C2: syntax overlay within a directory.  Where both files of an ancestor
\* directory hold objects, every key of either is in the result, and a key no
\* nearer directory defines has the syntax file's value if that file defines
\* it and the Preferences file's value otherwise.
C2_SyntaxOverlay ==
    Resolved =>
        LET anc == AncestorDirs(last.view)
            res == last.result.settings
        IN \A j \in 1..Len(anc) :
            (IsObject(SyntaxSlot(anc[j])) /\ IsObject(PrefsSlot(anc[j]))) =>
                \A k \in DOMAIN fs[SyntaxSlot(anc[j])].value
                         \cup DOMAIN fs[PrefsSlot(anc[j])].value :
                    /\ k \in DOMAIN res
                    /\ (\A i \in 1..(j - 1) : ~DirDefines(anc[i], k)) =>
                        res[k] = IF Defines(SyntaxSlot(anc[j]), k)
                                 THEN fs[SyntaxSlot(anc[j])].value[k]
                                 ELSE fs[PrefsSlot(anc[j])].value[k]

\* both files of the view's directory define a key, differently, and one of
\* them defines a key the other does not
C2_Witness ==
    /\ Resolved
    /\ LET dir == AncestorDirs(last.view)[1]
           syn == fs[SyntaxSlot(dir)]
           prefs == fs[PrefsSlot(dir)]
       IN /\ IsObject(SyntaxSlot(dir)) /\ IsObject(PrefsSlot(dir))
          /\ \E k \in DOMAIN syn.value \cap DOMAIN prefs.value :
                syn.value[k] # prefs.value[k] /\ last.result.settings[k] = syn.value[k]
          /\ \E k \in DOMAIN prefs.value \ DOMAIN syn.value :
                last.result.settings[k] = prefs.value[k]

\* C6: missing and corrupt files never abort.  view_settings returns; it asks
\* for every candidate file of every ancestor directory, in order; a candidate
\* that is missing or does not parse gives the empty mapping; and the keys of
\* every candidate that holds an object are in the result.
C6_MissingCorruptNeverAbort ==
    Resolved =>
        LET cand == Candidates(last.view)
            asked == last.result.consulted
        IN /\ last.outcome = "returned"
           /\ Len(asked) = Len(cand)
           /\ \A i \in 1..Len(cand) :
                /\ Locate(asked[i].file) = cand[i]
                /\ ~asked[i].raised
                /\ fs[cand[i]].kind \in {"absent", "corrupt"} => asked[i].loaded = EmptyDict
                /\ fs[cand[i]].kind = "object" =>
                        /\ asked[i].loaded = fs[cand[i]].value
                        /\ DOMAIN fs[cand[i]].value \subseteq DOMAIN last.result.settings

\* a corrupt file in the view's directory, and a key from a directory above
C6_Witness ==
    /\ Resolved
    /\ last.outcome = "returned"
    /\ LET anc == AncestorDirs(last.view)
       IN /\ Len(anc) >= 2
          /\ fs[PrefsSlot(anc[1])].kind = "corrupt"
          /\ fs[SyntaxSlot(anc[1])].kind = "absent"
          /\ \E j \in 2..Len(anc) : \E k \in Keys :
                DirDefines(anc[j], k) /\ k \in DOMAIN last.result.settings

\* C9: root termination.  The walk visits the directory of the file and then
\* each directory above it, once, and ends with the root; started on the root
\* it visits the root alone, parent_dir of the root being the empty string.
C9_RootTermination ==
    Resolved =>
        LET anc == AncestorDirs(last.view)
            visited == last.result.visited
        IN /\ Len(visited) = Len(anc)
           /\ \A j \in 1..Len(anc) : Components(visited[j]) = anc[j]
           /\ visited[Len(visited)] = RootDir
           /\ parent_dir(visited[Len(visited)]) = EmptyStr
           /\ Len(anc) = 1 => visited = <<RootDir>>

\* a walk from the root, and a walk from the deepest directory
C9_Witness ==
    /\ Resolved
    /\ last.result.visited = <<RootDir>>
    /\ file_name[last.view] = FileName(0)

C9_WitnessDeep ==
    /\ Resolved
    /\ Len(last.result.visited) = MaxDepth + 1
    /\ last.result.visited[1] = DirPath(MaxDepth)

---------------------------------------------------------------------------
(* Claims on the life of a view, under Spec *)

Registered(view) == list_contains(configured_views, view)

\* the step is the call of on_load or on_post_save on the view
ApplyCall(view) ==
    last'.op \in {"on_load", "on_post_save"} /\ last'.view = view

\* the last call was one of those
Applied == last.op \in {"on_load", "on_post_save"}

\* C3: idempotence.  apply_settings on a view whose id is in configured_views
\* changes neither a settings store nor the list, whatever the disk holds now.
C3_Idempotent ==
    [][\A view \in Views :
        (ApplyCall(view) /\ Registered(view)) =>
            /\ store' = store
            /\ configured_views' = configured_views
            /\ last'.outcome = "noop"]_vars

\* on_load left a configured view alone whose settings files have changed since
C3_Witness ==
    /\ last.op = "on_load"
    /\ last.outcome = "noop"
    /\ Registered(last.view)
    /\ LET r == view_settings(last.view)
       IN ~r.raised /\ \E k \in DOMAIN r.settings : store[last.view][k] # r.settings[k]

\* C4: release resets idempotence.  After on_close, the next apply_settings on
\* a view with a file resolves against the disk as it is now, writes every
\* resolved key to the store and puts the id back into configured_views.
C4_ReleaseResets ==
    [][\A view \in Views :
        (ApplyCall(view) /\ view \in released /\ file_name[view] # None) =>
            LET r == view_settings(view)
            IN /\ ~r.raised
               /\ last'.outcome = "reapplied"
               /\ \A k \in DOMAIN r.settings :
                    k \in DOMAIN store'[view] /\ store'[view][k] = r.settings[k]
               /\ list_contains(configured_views', view)]_vars

\* a view configured again after its release, with what the disk holds now
C4_Witness ==
    /\ Applied
    /\ last.outcome = "reapplied"
    /\ Registered(last.view)
    /\ LET r == view_settings(last.view)
       IN /\ r.settings # EmptyDict
          /\ \A k \in DOMAIN r.settings : store[last.view][k] = r.settings[k]

\* C5: no file path.  apply_settings on a view without a file name raises
\* nothing and leaves the view's id in configured_views.
C5_NoFilePath ==
    (Applied /\ file_name[last.view] = None) =>
        /\ last.outcome # "raised"
        /\ Registered(last.view)

\* C7: once per lifecycle.  A step that writes resolved settings to a view's
\* store is the step that puts its id into configured_views; only on_close of
\* the view takes the id out; on_post_save on a configured view keeps the id
\* and the store.
C7_OncePerLifecycle ==
    [][\A view \in Views :
        /\ (store'[view] # store[view]
            \/ (ApplyCall(view) /\ last'.outcome \in {"applied", "reapplied"}))
                => (~Registered(view) /\ list_contains(configured_views', view))
        /\ (Registered(view) /\ ~list_contains(configured_views', view))
                => (last'.op = "on_close" /\ last'.view = view)
        /\ (last'.op = "on_post_save" /\ last'.view = view /\ Registered(view))
                => (list_contains(configured_views', view) /\ store'[view] = store[view])]_vars

\* a save of a configured view, after its settings were applied
C7_Witness ==
    /\ last.op = "on_post_save"
    /\ last.outcome = "noop"
    /\ Registered(last.view)
    /\ store[last.view] # InitialStore

\* C8: additive overlay.  A step in which apply_settings configures a view
\* gives every resolved key its resolved value in the view's store, leaves
\* every other key of that store, and every other store, as it was.
C8_AdditiveOverlay ==
    [][\A view \in Views :
        (~Registered(view) /\ list_contains(configured_views', view)) =>
            LET r == view_settings(view).settings
            IN /\ DOMAIN store'[view] = DOMAIN store[view] \cup DOMAIN r
               /\ \A k \in DOMAIN r : store'[view][k] = r[k]
               /\ \A k \in DOMAIN store[view] \ DOMAIN r : store'[view][k] = store[view][k]
               /\ \A other \in Views :
                    (Registered(other) \/ ~list_contains(configured_views', other))
                        => store'[other] = store[other]]_vars

\* a store with a key overwritten by the last application and a key an
\* earlier application wrote and the last one left
C8_Witness ==
    /\ Applied
    /\ last.outcome = "reapplied"
    /\ LET r == view_settings(last.view).settings
           st == store[last.view]
       IN /\ \E k \in DOMAIN r \cap DOMAIN InitialStore : st[k] = r[k]
          /\ \E k \in DOMAIN st \ DOMAIN r : st[k] # HostDefault

\* C10: release.  on_close takes the view's id out of configured_views if it
\* is there and changes nothing if it is not; it raises nothing, and keeps
\* the other ids and all the stores.
C10_Release ==
    [][\A view \in Views :
        (last'.op = "on_close" /\ last'.view = view) =>
            /\ ~list_contains(configured_views', view)
            /\ last'.outcome = IF Registered(view) THEN "removed" ELSE "absent"
            /\ ~Registered(view) => configured_views' = configured_views
            /\ \A other \in Views \ {view} :
                    list_contains(configured_views', other) <=> Registered(other)
            /\ store' = store]_vars

\* on_close of a view that was configured and released before, another
\* view's id staying in the list
C10_Witness ==
    /\ last.op = "on_close"
    /\ last.outcome = "absent"
    /\ store[last.view] # InitialStore
    /\ \E other \in Views \ {last.view} : Registered(other)

\* on_close taking out one id and leaving the other
C10_WitnessRemoved ==
    /\ last.op = "on_close"
    /\ last.outcome = "removed"
    /\ \E other \in Views \ {last.view} : Registered(other)

---------------------------------------------------------------------------
(* Further claims on view_settings, under SpecResolve *)

\* C13: nesting of the two orders.  Every key has the value of the first
\* candidate defining it in the order nearest syntax file, nearest Preferences
\* file, next syntax file, next Preferences file, ..., root Preferences file;
\* so the Preferences file of a nearer directory beats the syntax file of a
\* farther one.
C13_Nesting ==
    Resolved =>
        LET cand == Candidates(last.view)
            res == last.result.settings
        IN \A k \in Keys :
            LET defining == {i \in 1..Len(cand) : Defines(cand[i], k)}
            IN defining # {} =>
                LET n == CHOOSE i \in defining : \A j \in defining : i <= j
                IN k \in DOMAIN res /\ res[k] = fs[cand[n]].value[k]

\* the Preferences file of a nearer directory and the syntax file of a farther
\* one define a key differently, and the result has the nearer value
C13_Witness ==
    /\ Resolved
    /\ last.outcome = "returned"
    /\ LET anc == AncestorDirs(last.view)
       IN \E k \in Keys : \E i, j \in 1..Len(anc) :
            /\ i < j
            /\ Defines(PrefsSlot(anc[i]), k) /\ Defines(SyntaxSlot(anc[j]), k)
            /\ fs[PrefsSlot(anc[i])].value[k] # fs[SyntaxSlot(anc[j])].value[k]
            /\ last.result.settings[k] = fs[PrefsSlot(anc[i])].value[k]

\* base, overwritten by top
Overwritten(base, top) ==
    [k \in DOMAIN base \cup DOMAIN top |-> IF k \in DOMAIN top THEN top[k] ELSE base[k]]

RECURSIVE FarthestFirst(_)
\* the layers merged from the last to the first, each overwriting what the
\* layers after it gave
FarthestFirst(layers) ==
    IF layers = << >> THEN EmptyDict
    ELSE Overwritten(FarthestFirst(Tail(layers)), Head(layers))

\* the mappings file_settings returned, in the order of the calls
Layers == [i \in 1..Len(last.result.consulted) |-> last.result.consulted[i].loaded]

\* C16: merge-order equivalence.  What view_settings accumulates, nearest
\* first and keeping the value a key already has, is what the same layers
\* give when merged farthest first with each nearer layer overwriting.
C16_MergeOrder ==
    (Resolved /\ last.outcome = "returned") =>
        last.result.settings = FarthestFirst(Layers)

\* two layers give a key different values, and the farther layer has a key
\* the nearer has not
C16_Witness ==
    /\ Resolved
    /\ last.outcome = "returned"
    /\ last.result.settings = FarthestFirst(Layers)
    /\ \E i, j \in 1..Len(Layers) :
        /\ i < j
        /\ \E k \in DOMAIN Layers[i] \cap DOMAIN Layers[j] : Layers[i][k] # Layers[j][k]
        /\ DOMAIN Layers[j] \ DOMAIN Layers[i] # {}

---------------------------------------------------------------------------
(* Claims on view_settings over broken files, under SpecFaults *)

\* C12: errors of a file stay in file_settings.  Whatever is wrong with a
\* settings file that exists (it cannot be opened, is not UTF-8, does not
\* parse, or parses to something that is no mapping), file_settings returns
\* a mapping and does not raise, and view_settings returns after it went
\* through every directory above the view's file.
C12_ErrorsContained ==
    Resolved =>
        /\ last.outcome = "returned"
        /\ \A i \in 1..Len(last.result.consulted) : ~last.result.consulted[i].raised
        /\ Len(last.result.visited) = Len(AncestorDirs(last.view))

---------------------------------------------------------------------------
(* Claims on view_settings at the root, under SpecRoot *)

\* C14: empty start directory.  When the parent of the view's file name is
\* empty, view_settings returns the empty mapping and has read no settings
\* file of any directory.
C14_EmptyParent ==
    (Resolved /\ parent_dir(file_name[last.view]) = EmptyStr) =>
        /\ last.outcome = "returned"
        /\ last.result.settings = EmptyDict
        /\ \A i \in 1..Len(last.result.consulted) :
                ~os_path_isfile(fs, last.result.consulted[i].file)

---------------------------------------------------------------------------
(* Claims on view_settings without a syntax, under SpecNoSyntax *)

\* C15: no syntax, no syntax file.  With an empty syntax name view_settings
\* returns, and no file that has the empty name before ".sublime-settings" is
\* read: the Preferences files alone give the result.
C15_SyntaxOnlyIfNamed ==
    (Resolved /\ splitext_root(basename(syntax[last.view])) = EmptyStr) =>
        /\ last.outcome = "returned"
        /\ \A i \in 1..Len(last.result.consulted) :
                basename(last.result.consulted[i].file) = <<".sublime-settings">>
                    => ~os_path_isfile(fs, last.result.consulted[i].file)

---------------------------------------------------------------------------
(* Further claims on the life of a view, under Spec *)

\* C11: bulk apply on startup.  When plugin_loaded is over, the id of every
\* open view is in configured_views, whatever the other views are.
C11_BulkApply ==
    last.op = "plugin_loaded" => \A view \in Views : Registered(view)

\* no id is twice in configured_views
NoDuplicates ==
    \A i, j \in 1..Len(configured_views) :
        i # j => configured_views[i] # configured_views[j]

\* C18: the registry.  After any sequence of plugin_loaded, on_load,
\* on_post_save and on_close made one after the other, configured_views has
\* each id at most once, the id of a view is not in it right after on_close
\* of that view, and an id is in it exactly when apply_settings has returned
\* for the view since the view's last on_close.
C18_Registry ==
    /\ NoDuplicates
    /\ last.op = "on_close" => ~Registered(last.view)
    /\ \A view \in Views : Registered(view) <=> view \in completed

\* a view was closed and its id removed while the other view stays registered
C18_Witness ==
    /\ last.op = "on_close"
    /\ last.outcome = "removed"
    /\ ~Registered(last.view)
    /\ last.view \notin completed
    /\ \E view \in Views : Registered(view) /\ view \in completed

---------------------------------------------------------------------------
(* Claims on the life of a view over broken files, under SpecFaulty *)

\* C19: nothing changes on an error.  When view_settings raises inside
\* apply_settings, no settings store is written and the view's id is not
\* appended to configured_views; a view for which no call has returned has an
\* untouched store and is not registered, and the next on_load or
\* on_post_save of the view resolves again.
C19_UnchangedOnError ==
    [][/\ \A view \in Views :
            (ApplyCall(view) /\ last'.outcome = "raised") =>
                /\ store' = store
                /\ configured_views' = configured_views
                /\ ~Registered(view)'
       /\ last'.outcome = "raised" =>
            \A view \in Views \ completed' :
                store'[view] = store[view] /\ ~Registered(view)'
       /\ (Applied /\ last.outcome = "raised" /\ ApplyCall(last.view)) =>
            last'.outcome # "noop"
      ]_vars

\* on_load or on_post_save of a view with a file raised over a broken
\* settings file, and the view is as the editor made it
C19_Witness ==
    /\ Applied
    /\ last.outcome = "raised"
    /\ file_name[last.view] # None
    /\ fs[EditedFile] \in FaultyEdits
    /\ store[last.view] = InitialStore
    /\ ~Registered(last.view)

---------------------------------------------------------------------------
(* Claims on calls from several threads, under SpecThreads *)

\* how often an id is in configured_views
Occurrences(view) ==
    Cardinality({i \in 1..Len(configured_views) : configured_views[i] = view})

\* C17, as stated: test and append of apply_settings are one atomic step.
\* With the events delivered by several threads, no view has its store
\* written by two calls and no id is twice in configured_views.
C17_Atomic ==
    \A view \in Views : Occurrences(view) <= 1 /\ writes[view] <= 1

\* C17, amended: apply_settings tests and appends in separate steps without a
\* lock.  A view's store is written by two calls, or its id appended twice,
\* only when a call made its membership test while another call for the same
\* view was between its own test and its append; calls that do not overlap
\* in this way apply a view once.
C17_TwiceOnlyWhenOverlapping ==
    \A view \in Views :
        (Occurrences(view) >= 2 \/ writes[view] >= 2) => view \in race

\* two overlapping calls both wrote the store of a view and appended its id
C17_Witness ==
    \E view \in Views :
        /\ view \in race
        /\ writes[view] = 2
        /\ Occurrences(view) = 2

=============================================================================
